---- MODULE Spec2Model ----
(***************************************************************************)
(* A model of the state-synchronisation pipeline of the canvas scene       *)
(* engine: the undo/redo log (src/src/history.rs) together with the live   *)
(* state it replays into (scene transform of src/src/scene_manager.rs, the *)
(* object map of src/src/object_manager.rs), and the message bus           *)
(* (src/src/render_control.rs); the object store with its grid and update  *)
(* queue (src/src/object_manager.rs); the identity allocator               *)
(* (src/src/element.rs).                                                   *)
(*                                                                         *)
(* Time is counted in whole milliseconds.  Rotation is counted in quarter  *)
(* turns, so that a full turn (2*PI in the source) is FullTurn.  Zoom is   *)
(* counted in tenths, so that the source's range [0.1, 10.0] is            *)
(* [ZoomMin, ZoomMax].                                                     *)
(***************************************************************************)
EXTENDS Integers, Sequences, FiniteSets, TLC

----------------------------------------------------------------------------
(* Bounds of the model *)

\* the number of client mutations of the live state in one behaviour
MaxMutations == 3
\* the clock stops advancing here (milliseconds)
MaxTime == 600
\* the bus: add_message calls in one behaviour
MaxMessages == 4
\* the bus clock stops advancing here (milliseconds)
MaxBusTime == 16
\* the allocator: the usable colours (2^24 in the source, alpha fixed) and
\* the identities requested in one behaviour
ColorSpace == 3
MaxIds == 4
\* the object store: calls of its API in one behaviour
MaxStoreOps == 5
\* the entries of the update queue
MaxQueue == 3
\* the setter calls of a behaviour
MaxSetterCalls == 3
\* the animations made and the calls of the AnimationManager in one behaviour
MaxAnimations == 3
MaxAnimOps == 5

(* Program constants *)

\* history.rs:171  `> 0.5` seconds
QuietPeriod == 500
\* render_control.rs:42  flush_interval: 0.008
flush_interval == 8
\* scene_manager.rs:139  zoom.max(0.1).min(10.0), in tenths
ZoomMin == 1
ZoomMax == 100
\* scene_manager.rs:154  2.0 * PI, in quarter turns
FullTurn == 4
\* object_manager.rs:9
GRID_CELL_SIZE == 100
\* object_manager.rs:10  0.1 seconds; the store's times are in tenths
UPDATE_PRIORITY_THRESHOLD == 1

(* Inputs the actions draw from *)

Ids == {"A"}
XValues == {0, 5, 9}
RotationSpeeds == {3}
Delays == {500, 600}
Priorities == {0, 1}
BusDelays == {4, 8}
\* what Instant::now().elapsed() can return: the time between two
\* consecutive reads of the clock, none or one tick of it
Jitters == {0, 1}
StoreIds == {"A", "B"}
FieldNames == {"x", "y"}
FieldValues == {5}
Positions == {<<10, 10>>, <<150, 10>>, <<200, 10>>, <<-10, 10>>}
Cameras == {<<0, 0>>, <<150, 10>>, <<200, 10>>}
Radii == {0, 50}
DeltaTimes == {0, 2}
BatchCaps == {0, 1, 2}
QueryPositions == {<<0, 0>>, <<-10, 10>>, <<150, 10>>}
QueryRadii == {0, 50, 100, 101}
ZoomValues == {5, 200}
RotationValues == {6}
CenterValues == {0, 7}
AnimatedIds == {"A", "B"}
Durations == {1, 2}

VARIABLES
    \* History (history.rs:78-87)
    undo_stack, redo_stack, current_unit, last_push_time, is_undoing, is_redoing,
    \* the live state: ObjectManager.objects and the SceneManager's transform
    objects, scene, scene_attached,
    \* TRUE once a replay has hit a BorrowMutError panic (the wasm instance traps)
    panicked,
    \* the clock read by Instant::now() and Date::now()
    now,
    \* observation of the last API call, and bookkeeping for the bounds
    call, n_mutations, mark, depth,
    \* RenderControl (render_control.rs:26-32): the buffer and the time of
    \* the last flush
    buffer, last_flush,
    \* the send tasks handed to spawn_local and not yet run, the batches
    \* queued in the channel, the batches receive_messages has returned
    spawned, channel, received,
    \* the batches in the order flush drained them, and the batches whose
    \* try_send returned Err (observation only)
    flushed, dropped,
    \* observation of the last add_message call, and the number of calls
    bcall, n_messages,
    \* the identity allocator (element.rs:22-23): ID_COLOR_MAP.0 and
    \* ID_COLOR_MAP.1, the COUNTER of generate_id, the id whose colour is
    \* being generated (0 for none) and the candidate colour of the loop
    id_to_color, color_to_id, n_ids, pending, color_id,
    \* the identities in the order they were issued, and those whose object
    \* still exists (observation only)
    issued, live_ids,
    \* ObjectManager (object_manager.rs:90-95): objects, grid.cells,
    \* update_queue and total_time
    object_data, grid, update_queue, total_time,
    \* the max_updates the frame loop calls update_batch with
    max_updates,
    \* observation of the last call of the store, for each object the
    \* number of update_batch calls since its last update, and the number
    \* of calls
    ocall, starved, n_store_ops,
    \* a Rect (element/rect.rs:52-92): its id, two of the fields that carry
    \* #[dirty_setter], and its dirty flag
    rect,
    \* AnimationManager (animation.rs:84-94): init, animations and
    \* queued_animations
    init, animations, queued_animations,
    \* observation of the last call of the AnimationManager, the number of
    \* animations made and the number of calls
    acall, n_animations, n_anim_ops

hvars == <<undo_stack, redo_stack, current_unit, last_push_time, is_undoing,
           is_redoing, objects, scene, scene_attached, panicked, now, call,
           n_mutations, mark, depth>>

bvars == <<buffer, last_flush, spawned, channel, received, flushed, dropped,
           bcall, n_messages>>

cvars == <<id_to_color, color_to_id, n_ids, pending, color_id, issued, live_ids>>

ovars == <<object_data, grid, update_queue, total_time, max_updates, ocall, starved,
           n_store_ops>>

rvars == <<rect>>

avars == <<init, animations, queued_animations, acall, n_animations, n_anim_ops>>

vars == <<hvars, bvars, cvars, ovars, rvars, avars>>

----------------------------------------------------------------------------
(* Sequences *)

Last(s) == s[Len(s)]
Front(s) == SubSeq(s, 1, Len(s) - 1)
RECURSIVE Reverse(_)
Reverse(s) == IF s = <<>> THEN <<>> ELSE Append(Reverse(Tail(s)), Head(s))

----------------------------------------------------------------------------
(* The live state that history replay writes: the object map and the scene *)

\* ObjectManager.objects and the SceneManager fields, as one value
Live == [objects |-> objects, scene |-> scene, panicked |-> panicked]

\* what an observer sees of a live state: object membership, object
\* properties and the scene transform.  SceneManager::calc_transform shows
\* the rotation through its sine and cosine only, so two rotations a whole
\* number of turns apart are the same observation.
Observe(objs, sc) ==
    [objects |-> objs, scene |-> [zoom |-> sc.zoom, rotation |-> sc.rotation % FullTurn]]

Observable == Observe(objects, scene)

\* zoom.max(0.1).min(10.0)
ClampZoom(z) == IF z < ZoomMin THEN ZoomMin ELSE IF z > ZoomMax THEN ZoomMax ELSE z

\* SceneManager::get_dirty_data: the fields a SceneHistoryItem carries.
\* Of the seven fields the two whose setters change the value they are
\* given are kept; offset_x, offset_y, height, width and dpr are carried
\* and assigned as they are.
get_dirty_data(s) == [zoom |-> s.zoom, rotation |-> s.rotation]

\* a payload that is no JSON object: serde_json::Value::Null
JsonNull == [null |-> TRUE]

\* serde_json::from_value(data), as far as it succeeds: the payload is an
\* object and holds every field that the target struct requires
from_value(data, required) == "null" \notin DOMAIN data /\ required \subseteq DOMAIN data

\* the fields of DirtyUpdates are all Option: none is required.  Those of
\* SceneDirtyData are plain f64 and u32: all are required.
DirtyUpdatesRequired == {}
SceneDirtyDataRequired == {"zoom", "rotation"}

\* the generated Rect::update(data): every field present in the payload is
\* assigned
rect_update(obj, data) == [obj EXCEPT !.x = data.x]

\* ObjectManager::update_object(id, data): look the object up and hand it
\* the payload; an id with no record is left alone
update_object(objs, id, data) ==
    IF id \in DOMAIN objs THEN [objs EXCEPT ![id] = rect_update(@, data)] ELSE objs

\* helper::create_element(type, data): the element deserialized from its
\* recorded data, id included
create_element(id, data) == [id |-> id, obj |-> data]

\* ObjectManager::add: objects.insert(id, object_data)
object_add(objs, el) ==
    [i \in DOMAIN objs \cup {el.id} |-> IF i = el.id THEN el.obj ELSE objs[i]]

\* ObjectManager::remove: objects.remove(id)
object_remove(objs, id) == [i \in DOMAIN objs \ {id} |-> objs[i]]

\* SceneManager::update_scene(data) as run from a replay, i.e. while the
\* History is mutably borrowed by undo()/redo().  set_zoom assigns the zoom
\* and calls set_transform_direct, which, with an App attached, evaluates
\* app.history.borrow_mut() and panics with BorrowMutError; the remaining
\* setters are then never reached.  Detached, the setters run to the end:
\* set_zoom clamps and set_rotation reduces modulo a full turn.
update_scene(st, data, attached) ==
    IF ~from_value(data, SceneDirtyDataRequired) THEN [st EXCEPT !.panicked = TRUE]
    ELSE IF attached
    THEN [st EXCEPT !.scene.zoom = ClampZoom(data.zoom), !.panicked = TRUE]
    ELSE [st EXCEPT !.scene.zoom = ClampZoom(data.zoom),
                    !.scene.rotation = data.rotation % FullTurn]

\* the generated update(data) opens with from_value(data).unwrap(): an
\* object handed a payload that does not deserialize panics
update_panics(objs, id, data) ==
    id \in DOMAIN objs /\ ~from_value(data, DirtyUpdatesRequired)

\* one arm of the match in History::apply_history_unit
apply_history_item(st, item, is_undo, attached) ==
    CASE item.kind = "ObjectUpdate" ->
            IF update_panics(st.objects, item.object_id,
                             IF is_undo THEN item.undo_data ELSE item.redo_data)
            THEN [st EXCEPT !.panicked = TRUE]
            ELSE [st EXCEPT !.objects = update_object(@, item.object_id,
                                     IF is_undo THEN item.undo_data ELSE item.redo_data)]
      [] item.kind = "SceneUpdate" ->
            update_scene(st, IF is_undo THEN item.undo_data ELSE item.redo_data, attached)
      [] item.kind = "AddElement" ->
            IF is_undo
            THEN [st EXCEPT !.objects = object_remove(@, item.element_id)]
            ELSE [st EXCEPT !.objects =
                     object_add(@, create_element(item.element_id, item.element_data))]
      [] item.kind = "RemoveElement" ->
            IF is_undo
            THEN [st EXCEPT !.objects =
                     object_add(@, create_element(item.element_id, item.element_data))]
            ELSE [st EXCEPT !.objects = object_remove(@, item.element_id)]

\* the for loop of apply_history_unit; a panic ends it
RECURSIVE apply_items(_, _, _, _)
apply_items(st, items, is_undo, attached) ==
    IF items = <<>> \/ st.panicked THEN st
    ELSE apply_items(apply_history_item(st, Head(items), is_undo, attached),
                     Tail(items), is_undo, attached)

\* the iteration order of apply_history_unit: items.iter().rev() for undo
replay_order(items, is_undo) == IF is_undo THEN Reverse(items) ELSE items

\* History::apply_history_unit(app, unit, is_undo)
apply_history_unit(st, unit, is_undo, attached) ==
    apply_items(st, replay_order(unit.items, is_undo), is_undo, attached)

----------------------------------------------------------------------------
(* History *)

\* the History object as one value
History == [undo_stack |-> undo_stack, redo_stack |-> redo_stack,
            current_unit |-> current_unit, last_push_time |-> last_push_time,
            is_undoing |-> is_undoing, is_redoing |-> is_redoing]

\* Option<HistoryUnit> is a sequence of length 0 (None) or 1 (Some)
NoUnit == <<>>

\* History::finalize_current_unit
finalize_current_unit(h) ==
    IF h.current_unit = NoUnit THEN h
    ELSE [h EXCEPT !.undo_stack = IF h.current_unit[1].items # <<>>
                                  THEN Append(@, h.current_unit[1]) ELSE @,
                   !.current_unit = NoUnit]

\* the should_finalize test of History::push
should_finalize(h, t) ==
    h.current_unit = NoUnit \/ t - h.last_push_time > QuietPeriod

\* a guard that looks at is_undoing alone, to compare with push_guard
push_guard_undo_only(h) == h.is_undoing

\* the early return of History::push
push_guard(h) == h.is_undoing \/ h.is_redoing

\* History::push(item) at time t
push(h, item, t) ==
    IF push_guard(h) THEN h
    ELSE LET h1 == IF should_finalize(h, t)
                   THEN [finalize_current_unit(h) EXCEPT
                            !.current_unit = <<[items |-> <<item>>, timestamp |-> t]>>]
                   ELSE [h EXCEPT !.current_unit[1].items = Append(@, item)]
         IN  [h1 EXCEPT !.redo_stack = <<>>, !.last_push_time = t]

\* History::can_undo / can_redo
can_undo(h) == h.undo_stack # <<>> \/ h.current_unit # NoUnit
can_redo(h) == h.redo_stack # <<>>

NoItem == [kind |-> "None"]

SetHistory(h) ==
    /\ undo_stack' = h.undo_stack
    /\ redo_stack' = h.redo_stack
    /\ current_unit' = h.current_unit
    /\ last_push_time' = h.last_push_time
    /\ is_undoing' = h.is_undoing
    /\ is_redoing' = h.is_redoing

\* what the observation records of a push call: the flags and the open unit
\* it found, the item it was given and the time
PushCall(item) ==
    [op |-> "push", ret |-> TRUE, guarded |-> push_guard(History),
     fresh |-> current_unit = NoUnit, item |-> item, t |-> now]

OtherCall(op, ret) ==
    [op |-> op, ret |-> ret, guarded |-> FALSE, fresh |-> FALSE,
     item |-> NoItem, t |-> 0]

----------------------------------------------------------------------------
(* The clients of History: the scene mutators and the callers that record  *)
(* object changes                                                          *)

\* a mutation of the live state by a client: the new live state, the item
\* handed to History::push when `recorded`
Mutate(objs, sc, recorded, item) ==
    /\ ~panicked
    /\ n_mutations < MaxMutations
    /\ n_mutations' = n_mutations + 1
    /\ objects' = objs
    /\ scene' = sc
    /\ IF recorded
       THEN /\ SetHistory(push(History, item, now))
            /\ call' = PushCall(item)
       ELSE /\ SetHistory(History)
            /\ call' = OtherCall("mutate", TRUE)
    /\ mark' = [obs |-> Observe(objs, sc), pushed |-> mark.pushed /\ recorded]
    /\ depth' = 0
    /\ UNCHANGED <<scene_attached, panicked, now, bvars, cvars, ovars, rvars, avars>>

\* SceneManager::set_transform_direct(old_data, new_data): with an App
\* attached, push a SceneUpdate item
set_transform_direct(sc) ==
    Mutate(objects, sc, scene_attached,
           [kind |-> "SceneUpdate", undo_data |-> get_dirty_data(scene),
            redo_data |-> get_dirty_data(sc)])

\* SceneManager::update_rotation: rotation += rotation_speed, not reduced
update_rotation == \E r \in RotationSpeeds :
    set_transform_direct([scene EXCEPT !.rotation = @ + r])

\* SceneManager::set_zoom: the zoom clamped to its range
set_zoom == \E zoom \in ZoomValues :
    set_transform_direct([scene EXCEPT !.zoom = ClampZoom(zoom)])

\* SceneManager::set_rotation: the rotation reduced modulo a full turn
set_rotation == \E rotation \in RotationValues :
    set_transform_direct([scene EXCEPT !.rotation = rotation % FullTurn])

\* SceneManager::set_center: the rotation centre
set_center == \E x \in CenterValues : \E y \in CenterValues :
    set_transform_direct([scene EXCEPT !.center_x = x, !.center_y = y])

\* a caller that changes an object's property and records the change as an
\* ObjectUpdate item whose undo payload is the old value
RecordObjectUpdate == \E id \in DOMAIN objects : \E v \in XValues \ {objects[id].x} :
    Mutate([objects EXCEPT ![id].x = v], scene, TRUE,
           [kind |-> "ObjectUpdate", object_id |-> id,
            undo_data |-> [x |-> objects[id].x], redo_data |-> [x |-> v]])

\* a caller that records an ObjectUpdate item whose payloads are not JSON
\* objects (ObjectHistoryItem::new takes any serde_json::Value)
RecordMalformedUpdate == \E id \in DOMAIN objects :
    Mutate(objects, scene, TRUE,
           [kind |-> "ObjectUpdate", object_id |-> id,
            undo_data |-> JsonNull, redo_data |-> JsonNull])

\* a caller that records a SceneUpdate item whose payloads are not JSON
\* objects (SceneHistoryItem::new takes any serde_json::Value)
RecordMalformedScene ==
    Mutate(objects, scene, TRUE,
           [kind |-> "SceneUpdate", undo_data |-> JsonNull, redo_data |-> JsonNull])

\* a caller that adds an object and records an AddElement item
RecordAddElement == \E id \in Ids \ DOMAIN objects :
    Mutate(object_add(objects, [id |-> id, obj |-> [x |-> 0]]), scene, TRUE,
           [kind |-> "AddElement", element_id |-> id, element_data |-> [x |-> 0]])

\* a caller that removes an object and records a RemoveElement item
RecordRemoveElement == \E id \in DOMAIN objects :
    Mutate(object_remove(objects, id), scene, TRUE,
           [kind |-> "RemoveElement", element_id |-> id, element_data |-> objects[id]])

\* SceneManager::detach
detach ==
    /\ ~panicked /\ scene_attached
    /\ scene_attached' = FALSE
    /\ UNCHANGED <<undo_stack, redo_stack, current_unit, last_push_time, is_undoing,
                   is_redoing, objects, scene, panicked, now, call, n_mutations, mark,
                   depth, bvars, cvars, ovars, rvars, avars>>

\* the clock advances
Tick == \E d \in Delays :
    /\ ~panicked
    /\ now + d <= MaxTime
    /\ now' = now + d
    /\ UNCHANGED <<undo_stack, redo_stack, current_unit, last_push_time, is_undoing,
                   is_redoing, objects, scene, scene_attached, panicked, call,
                   n_mutations, mark, depth, bvars, cvars, ovars, rvars, avars>>

----------------------------------------------------------------------------
(* undo and redo *)

\* the stacks after a replay that popped `unit` from `from` for `to`; a
\* panic leaves the popped unit on neither
Replay(h, is_undo) ==
    LET from == IF is_undo THEN h.undo_stack ELSE h.redo_stack
        to   == IF is_undo THEN h.redo_stack ELSE h.undo_stack
        unit == Last(from)
        st   == apply_history_unit(Live, unit, is_undo, scene_attached)
        to1  == IF st.panicked THEN to ELSE Append(to, unit)
    IN  /\ SetHistory([h EXCEPT !.undo_stack = IF is_undo THEN Front(from) ELSE to1,
                                !.redo_stack = IF is_undo THEN to1 ELSE Front(from)])
        /\ objects' = st.objects
        /\ scene' = st.scene
        /\ panicked' = st.panicked
        /\ call' = OtherCall(IF is_undo THEN "undo" ELSE "redo", ~st.panicked)
        /\ depth' = IF st.panicked THEN depth
                    ELSE IF is_undo THEN depth + 1 ELSE depth - 1

NoReplay(h, op) ==
    /\ SetHistory(h)
    /\ call' = OtherCall(op, FALSE)
    /\ UNCHANGED <<objects, scene, panicked, depth>>

\* History::undo
undo ==
    /\ ~panicked
    /\ LET h1 == finalize_current_unit([History EXCEPT !.is_undoing = TRUE])
       IN  IF h1.undo_stack # <<>>
           THEN Replay(h1, TRUE)
           ELSE NoReplay([h1 EXCEPT !.is_undoing = FALSE], "undo")
    /\ UNCHANGED <<scene_attached, now, n_mutations, mark, bvars, cvars, ovars, rvars, avars>>

\* History::redo
redo ==
    /\ ~panicked
    /\ LET h1 == finalize_current_unit([History EXCEPT !.is_redoing = TRUE])
       IN  IF h1.redo_stack # <<>>
           THEN Replay(h1, FALSE)
           ELSE NoReplay([h1 EXCEPT !.is_redoing = FALSE], "redo")
    /\ UNCHANGED <<scene_attached, now, n_mutations, mark, bvars, cvars, ovars, rvars, avars>>

----------------------------------------------------------------------------
(* undo_to_time and redo_to_time *)

\* the target times the callers pass
TargetTimes == {0, 500, 600}

\* the objects the store holds when the history starts
InitialObjects == [i \in {"A"} |-> [x |-> 0]]

\* App::reset_to_initial_state: the store back to its first objects, then
\* SceneManager::reset_to_initial_state: set_zoom(1.0), set_offset,
\* set_rotation(0.0), ...  As in update_scene, with an App attached set_zoom
\* ends in set_transform_direct's app.history.borrow_mut(), which panics
\* while the History is mutably borrowed by the caller of undo_to_time.
reset_to_initial_state(st, attached) ==
    IF attached
    THEN [st EXCEPT !.objects = InitialObjects, !.scene.zoom = ClampZoom(10),
                    !.panicked = TRUE]
    ELSE [st EXCEPT !.objects = InitialObjects, !.scene.zoom = ClampZoom(10),
                    !.scene.rotation = 0 % FullTurn]

\* the for loop of apply_operations_to_current_state; a panic ends it
RECURSIVE apply_units(_, _, _, _)
apply_units(st, operations, is_undo, attached) ==
    IF operations = <<>> \/ st.panicked THEN st
    ELSE apply_units(apply_history_unit(st, Head(operations), is_undo, attached),
                     Tail(operations), is_undo, attached)

\* History::apply_operations_to_current_state(app, operations, is_undo)
apply_operations_to_current_state(st, operations, is_undo, attached) ==
    apply_units(reset_to_initial_state(st, attached), operations, is_undo, attached)

\* iter().position(|unit| unit.timestamp <= target_time): the number of
\* units before the first such unit, -1 for None
RECURSIVE position_le(_, _)
position_le(stack, target_time) ==
    IF stack = <<>> THEN -1
    ELSE IF Head(stack).timestamp <= target_time THEN 0
    ELSE LET rest == position_le(Tail(stack), target_time)
         IN  IF rest = -1 THEN -1 ELSE rest + 1

\* iter().position(|unit| unit.timestamp > target_time)
RECURSIVE position_gt(_, _)
position_gt(stack, target_time) ==
    IF stack = <<>> THEN -1
    ELSE IF Head(stack).timestamp > target_time THEN 0
    ELSE LET rest == position_gt(Tail(stack), target_time)
         IN  IF rest = -1 THEN -1 ELSE rest + 1

\* Option::unwrap_or
unwrap_or(index, default) == IF index = -1 THEN default ELSE index

\* Vec::drain(target_index..) and Vec::drain(..target_index): the units
\* taken out, and the units left
drain_from(stack, target_index) == SubSeq(stack, target_index + 1, Len(stack))
drain_to(stack, target_index) == SubSeq(stack, 1, target_index)

\* what the observation records of a jump: the target time and the stacks
\* the jump found (the undo stack after ensure_current_unit_finalized)
JumpCall(op, target_time, h) ==
    [op |-> op, ret |-> TRUE, guarded |-> FALSE, fresh |-> FALSE, item |-> NoItem,
     t |-> target_time, undo_before |-> h.undo_stack, redo_before |-> h.redo_stack]

\* the stacks and the live state after a jump
Jump(h, op, target_time, undo_after, redo_after, is_undo) ==
    LET st == apply_operations_to_current_state(Live, undo_after, is_undo,
                                                scene_attached)
    IN  /\ SetHistory([h EXCEPT !.undo_stack = undo_after, !.redo_stack = redo_after])
        /\ objects' = st.objects
        /\ scene' = st.scene
        /\ panicked' = st.panicked
        /\ call' = JumpCall(op, target_time, h)
        /\ depth' = Len(redo_after)
        /\ UNCHANGED <<scene_attached, now, n_mutations, mark, bvars, cvars, ovars, rvars, avars>>

\* History::undo_to_time(target_time)
undo_to_time == \E target_time \in TargetTimes :
    /\ ~panicked
    /\ LET h1 == finalize_current_unit([History EXCEPT !.is_undoing = TRUE])
           target_index == unwrap_or(position_le(h1.undo_stack, target_time), 0)
           units_to_undo == Reverse(drain_from(h1.undo_stack, target_index))
       IN  Jump(h1, "undo_to_time", target_time,
                drain_to(h1.undo_stack, target_index),
                h1.redo_stack \o units_to_undo, TRUE)

\* History::redo_to_time(target_time)
redo_to_time == \E target_time \in TargetTimes :
    /\ ~panicked
    /\ LET h1 == [History EXCEPT !.is_redoing = TRUE]
           target_index == unwrap_or(position_gt(h1.redo_stack, target_time),
                                     Len(h1.redo_stack))
           units_to_redo == drain_to(h1.redo_stack, target_index)
       IN  Jump(h1, "redo_to_time", target_time,
                h1.undo_stack \o units_to_redo,
                drain_from(h1.redo_stack, target_index), FALSE)

\* History::clear: both stacks and the open unit emptied, last_push_time
\* set to now; the two flags are left as they are
History_clear ==
    /\ ~panicked
    /\ SetHistory([History EXCEPT !.undo_stack = <<>>, !.redo_stack = <<>>,
                                  !.current_unit = NoUnit, !.last_push_time = now])
    /\ call' = OtherCall("clear", TRUE)
    /\ depth' = 0
    /\ UNCHANGED <<objects, scene, scene_attached, panicked, now, n_mutations, mark,
                   bvars, cvars, ovars, rvars, avars>>

----------------------------------------------------------------------------
(* RenderControl, the message bus *)

\* the RenderControl fields add_message writes, as one value
Bus == [buffer |-> buffer, last_flush |-> last_flush, spawned |-> spawned,
        flushed |-> flushed]

\* VecDeque::insert(index, element), index counted from 1
Insert(s, i, e) == SubSeq(s, 1, i - 1) \o <<e>> \o SubSeq(s, i, Len(s))

\* a position that also passes messages of equal priority, to compare with
\* insert_position
insert_position_before_equal(buf, priority) ==
    LET lower == {i \in 1..Len(buf) : buf[i].priority <= priority}
    IN  IF lower = {} THEN Len(buf) + 1
        ELSE CHOOSE i \in lower : \A j \in lower : i <= j

\* the position add_message inserts at: that of the first buffered message
\* of lower priority, else the end
insert_position(buf, priority) ==
    LET lower == {i \in 1..Len(buf) : buf[i].priority < priority}
    IN  IF lower = {} THEN Len(buf) + 1
        ELSE CHOOSE i \in lower : \A j \in lower : i <= j

\* an executor that runs the newest task first, to compare with spawn_local
spawn_local_lifo(tasks, batch) == <<batch>> \o tasks

\* spawn_local(async move { sender.clone().try_send(messages) }): the task
\* joins the executor's queue
spawn_local(tasks, batch) == Append(tasks, batch)

\* RenderControl::flush at time t; a batch is the drained messages
flush(b, t) ==
    IF b.buffer # <<>>
    THEN [b EXCEPT !.buffer = <<>>,
                   !.spawned = spawn_local(@, b.buffer),
                   !.flushed = Append(@, b.buffer),
                   !.last_flush = t]
    ELSE b

\* RenderControl::flush_if_needed at time t, Instant::now().elapsed()
\* returning current_time
flush_if_needed(b, t, current_time) ==
    LET elapsed == t - b.last_flush
    IN  IF elapsed - current_time >= flush_interval THEN flush(b, t) ELSE b

\* RenderControl::add_message(UpdateMessage::Update(update_body))
add_message_update(b, msg, t, current_time) ==
    flush_if_needed(
        [b EXCEPT !.buffer = Insert(@, insert_position(@, msg.priority), msg)],
        t, current_time)

\* a ForceUpdate that waits for the flush interval, to compare with
\* add_message_force
add_message_force_timed(b, t) == [flush_if_needed(b, t, 0) EXCEPT !.buffer = <<>>]

\* RenderControl::add_message(UpdateMessage::ForceUpdate)
add_message_force(b, t) == [flush(b, t) EXCEPT !.buffer = <<>>]

SetBus(b) ==
    /\ buffer' = b.buffer
    /\ last_flush' = b.last_flush
    /\ spawned' = b.spawned
    /\ flushed' = b.flushed

\* a producer calls add_message with an Update; `seq` numbers the messages
\* in arrival order and stands for the body's payload
AddUpdate == \E p \in Priorities : \E j \in Jitters :
    /\ n_messages < MaxMessages
    /\ n_messages' = n_messages + 1
    /\ SetBus(add_message_update(Bus, [priority |-> p, seq |-> n_messages + 1], now, j))
    /\ bcall' = [op |-> "update", elapsed |-> now - last_flush, jitter |-> j,
                 buffered |-> Len(buffer)]
    /\ UNCHANGED <<channel, received, dropped, hvars, cvars, ovars, rvars, avars>>

\* a producer calls add_message with ForceUpdate
AddForceUpdate ==
    /\ n_messages < MaxMessages
    /\ n_messages' = n_messages + 1
    /\ SetBus(add_message_force(Bus, now))
    /\ bcall' = [op |-> "force", elapsed |-> now - last_flush, jitter |-> 0,
                 buffered |-> Len(buffer)]
    /\ UNCHANGED <<channel, received, dropped, hvars, cvars, ovars, rvars, avars>>

\* a task that goes back to the end of the executor's queue when its send
\* fails, to compare with send_task
send_task_retry(tasks, chan, ok) ==
    IF ok
    THEN [spawned |-> Tail(tasks), channel |-> Append(chan, Head(tasks))]
    ELSE [spawned |-> Append(Tail(tasks), Head(tasks)), channel |-> chan]

\* the body of the spawned task, run once: try_send queues the batch (ok),
\* or returns Err, which is logged, and the task ends all the same
send_task(tasks, chan, ok) ==
    IF ok
    THEN [spawned |-> Tail(tasks), channel |-> Append(chan, Head(tasks))]
    ELSE [spawned |-> Tail(tasks), channel |-> chan]

\* the executor runs the oldest spawned task: try_send on a fresh clone of
\* the sender queues the batch, or returns Err while a batch is still
\* queued, and the batch is logged and dropped
RunSendTask ==
    /\ spawned # <<>>
    /\ \/ /\ spawned' = send_task(spawned, channel, TRUE).spawned
          /\ channel' = send_task(spawned, channel, TRUE).channel
          /\ dropped' = dropped
       \/ /\ channel # <<>>
          /\ spawned' = send_task(spawned, channel, FALSE).spawned
          /\ channel' = send_task(spawned, channel, FALSE).channel
          /\ dropped' = Append(dropped, Head(spawned))
    /\ UNCHANGED <<buffer, last_flush, received, flushed, bcall, n_messages, hvars,
                   cvars, ovars, rvars, avars>>

\* RenderControl::receive_messages: receiver.next() resolves with the
\* oldest queued batch
receive_messages ==
    /\ channel # <<>>
    /\ channel' = Tail(channel)
    /\ received' = Append(received, Head(channel))
    /\ UNCHANGED <<buffer, last_flush, spawned, flushed, dropped, bcall, n_messages,
                   hvars, cvars, ovars, rvars, avars>>

\* the clock advances
TickBus == \E d \in BusDelays :
    /\ now + d <= MaxBusTime
    /\ now' = now + d
    /\ UNCHANGED <<undo_stack, redo_stack, current_unit, last_push_time, is_undoing,
                   is_redoing, objects, scene, scene_attached, panicked, call,
                   n_mutations, mark, depth, bvars, cvars, ovars, rvars, avars>>

----------------------------------------------------------------------------
(* The setters generated by #[derive(DirtySetter)]                          *)

\* UpdateBody::new(update_type, data): the priority is 0
UpdateBody_new(update_type, data) ==
    [update_type |-> update_type, data |-> data, priority |-> 0]

\* the argument of set_multiple: a DirtyUpdates, each field Some or None
DirtyUpdates == UNION {[provided -> FieldValues] : provided \in SUBSET FieldNames}

\* json!({ field: value })
JsonField(field, value) == [f \in {field} |-> value]

\* the fields of a Rect after those of `updates` were assigned
Assign(r, updates) ==
    [f \in DOMAIN r |-> IF f \in DOMAIN updates THEN updates[f] ELSE r[f]]

\* Rect::set_dirty
set_dirty(r) == [r EXCEPT !.dirty = TRUE]

\* the generated set_<field>(value): the Rect afterwards, and the message
\* handed to add_message
set_field(r, field, value) ==
    [rect |-> set_dirty(Assign(r, JsonField(field, value))),
     messages |-> <<UpdateBody_new([object |-> r.id], JsonField(field, value))>>]

\* a set_multiple that sends its message whatever was provided, to compare
\* with set_multiple
set_multiple_unconditional(r, updates) ==
    [rect |-> set_dirty(Assign(r, updates)),
     messages |-> <<UpdateBody_new([object |-> r.id], updates)>>]

\* the generated set_multiple(updates)
set_multiple(r, updates) ==
    IF DOMAIN updates # {}
    THEN [rect |-> set_dirty(Assign(r, updates)),
          messages |-> <<UpdateBody_new([object |-> r.id], updates)>>]
    ELSE [rect |-> Assign(r, updates), messages |-> <<>>]

\* a setter call: the Rect it leaves, and its message, if any, through
\* RenderControl::add_message.  Nothing is handed to History::push.
Setter(op, updates, result) == \E j \in Jitters :
    /\ n_messages < MaxSetterCalls
    /\ n_messages' = n_messages + 1
    /\ rect' = result.rect
    /\ IF result.messages = <<>>
       THEN SetBus(Bus)
       ELSE SetBus(add_message_update(
                Bus, [result.messages[1] EXCEPT !.priority = @] @@
                     [seq |-> n_messages + 1], now, j))
    /\ bcall' = [op |-> op, elapsed |-> now - last_flush, jitter |-> j,
                 buffered |-> Len(buffer), updates |-> updates]
    /\ UNCHANGED <<channel, received, dropped, hvars, cvars, ovars, avars>>

\* rect.set_x(value)
set_x == \E value \in FieldValues :
    Setter("set_x", JsonField("x", value), set_field(rect, "x", value))

\* rect.set_y(value)
set_y == \E value \in FieldValues :
    Setter("set_y", JsonField("y", value), set_field(rect, "y", value))

\* rect.set_multiple(updates)
set_multiple_call == \E updates \in DirtyUpdates :
    Setter("set_multiple", updates, set_multiple(rect, updates))

\* Dirty::set_dirty_flag(false), by the code that has drawn the object
set_dirty_flag ==
    /\ rect.dirty
    /\ rect' = [rect EXCEPT !.dirty = FALSE]
    /\ UNCHANGED <<hvars, bvars, cvars, ovars, avars>>

----------------------------------------------------------------------------
(* The identity allocator *)

\* the usable colours: three random bytes, alpha 255
Colors == 0..(ColorSpace - 1)

\* HashMap::insert
MapPut(f, k, v) == [x \in DOMAIN f \cup {k} |-> IF x = k THEN v ELSE f[x]]

\* a test that takes every colour for free, to compare with color_free
color_free_always(c2i, c) == TRUE

\* the test of the loop: !ID_COLOR_MAP.1.contains_key(&color_id)
color_free(c2i, c) == c \notin DOMAIN c2i

\* ObjectId::new up to the call of generate_unique_color_id: generate_id
\* makes an id out of the COUNTER, which never gives the same id twice
ObjectId_new ==
    /\ pending = 0
    /\ n_ids < MaxIds
    /\ n_ids' = n_ids + 1
    /\ pending' = n_ids + 1
    /\ UNCHANGED <<id_to_color, color_to_id, color_id, issued, live_ids, hvars, bvars,
                   ovars, rvars, avars>>

\* one turn of the loop of generate_unique_color_id: generate_random_color
\* draws a colour; a free one is entered in both maps and returned, a taken
\* one sends the loop round again
generate_unique_color_id == \E c \in Colors :
    /\ pending # 0
    /\ color_id' = c
    /\ IF color_free(color_to_id, c)
       THEN /\ id_to_color' = MapPut(id_to_color, pending, c)
            /\ color_to_id' = MapPut(color_to_id, c, pending)
            /\ issued' = Append(issued, [id |-> pending, color |-> c])
            /\ live_ids' = live_ids \cup {pending}
            /\ pending' = 0
       ELSE UNCHANGED <<id_to_color, color_to_id, issued, live_ids, pending>>
    /\ UNCHANGED <<n_ids, hvars, bvars, ovars, rvars, avars>>

\* an object is removed and dropped with its ObjectId: ObjectId has no Drop
\* and nothing takes an entry out of ID_COLOR_MAP
drop_object == \E id \in live_ids :
    /\ live_ids' = live_ids \ {id}
    /\ UNCHANGED <<id_to_color, color_to_id, n_ids, pending, color_id, issued, hvars,
                   bvars, ovars, rvars, avars>>

\* ObjectId::get_id_by_color / ObjectId::get_color_by_id; None is 0 resp. -1
get_id_by_color(c) == IF c \in DOMAIN color_to_id THEN color_to_id[c] ELSE 0
get_color_by_id(id) == IF id \in DOMAIN id_to_color THEN id_to_color[id] ELSE -1

----------------------------------------------------------------------------
(* The object store: Grid and ObjectManager *)

\* Grid::world_to_cell: (x / GRID_CELL_SIZE).floor() on both coordinates
world_to_cell(position) ==
    <<position[1] \div GRID_CELL_SIZE, position[2] \div GRID_CELL_SIZE>>

\* Grid::insert: push the id onto the cell's Vec, created when absent
grid_insert(cells, id, position) ==
    LET cell_pos == world_to_cell(position)
    IN  IF cell_pos \in DOMAIN cells
        THEN [cells EXCEPT ![cell_pos] = Append(@, id)]
        ELSE MapPut(cells, cell_pos, <<id>>)

\* Grid::remove: retain the other ids of the cell, drop an emptied cell
grid_remove(cells, id, position) ==
    LET cell_pos == world_to_cell(position)
    IN  IF cell_pos \in DOMAIN cells
        THEN LET kept == SelectSeq(cells[cell_pos], LAMBDA obj_id : obj_id # id)
             IN  IF kept = <<>>
                 THEN [c \in DOMAIN cells \ {cell_pos} |-> cells[c]]
                 ELSE [cells EXCEPT ![cell_pos] = kept]
        ELSE cells

\* a grid that is left alone when an object moves, to compare with
\* update_position
update_position_skipped(cells, id, old_pos, new_pos) == cells

\* Grid::update_position
update_position(cells, id, old_pos, new_pos) ==
    IF world_to_cell(old_pos) # world_to_cell(new_pos)
    THEN grid_insert(grid_remove(cells, id, old_pos), id, new_pos)
    ELSE cells

\* a radius in cells that is rounded down, to compare with cell_radius
cell_radius_floor(radius) == radius \div GRID_CELL_SIZE

\* (radius / GRID_CELL_SIZE).ceil()
cell_radius(radius) == (radius + GRID_CELL_SIZE - 1) \div GRID_CELL_SIZE

\* the cells Grid::get_nearby_objects looks at, in the order of its loops:
\* dx outside, dy inside, each from -cell_radius to cell_radius
nearby_cells(position, radius) ==
    LET r == cell_radius(radius)
        n == 2 * r + 1
        center == world_to_cell(position)
    IN  [i \in 1..(n * n) |->
            <<center[1] - r + ((i - 1) \div n), center[2] - r + ((i - 1) % n)>>]

RECURSIVE collect_cells(_, _)
collect_cells(cells, wanted) ==
    IF wanted = <<>> THEN <<>>
    ELSE (IF Head(wanted) \in DOMAIN cells THEN cells[Head(wanted)] ELSE <<>>)
            \o collect_cells(cells, Tail(wanted))

\* Grid::get_nearby_objects: the ids of every cell looked at
get_nearby_objects(cells, position, radius) ==
    collect_cells(cells, nearby_cells(position, radius))

\* the ObjectManager fields as one value, with the ids a call has updated
\* and the Option a call has returned (a sequence of length 0 or 1)
Store == [object_data |-> object_data, grid |-> grid, update_queue |-> update_queue,
          total_time |-> total_time, updated |-> <<>>, returned |-> <<>>]

\* an add that stamps the record with time 0, to compare with store_add
store_add_unstamped(st, id, position) ==
    [st EXCEPT !.grid = grid_insert(@, id, position),
               !.object_data = MapPut(@, id, [object |-> [position |-> position],
                                              last_update |-> 0,
                                              position |-> position]),
               !.update_queue = Append(@, id)]

\* ObjectManager::add of an object with this id at this position
store_add(st, id, position) ==
    [st EXCEPT !.grid = grid_insert(@, id, position),
               !.object_data = MapPut(@, id, [object |-> [position |-> position],
                                              last_update |-> st.total_time,
                                              position |-> position]),
               !.update_queue = Append(@, id)]

\* ObjectManager::remove
store_remove(st, id) ==
    IF id \in DOMAIN st.object_data
    THEN [st EXCEPT !.object_data = [i \in DOMAIN @ \ {id} |-> @[i]],
                    !.grid = grid_remove(@, id, st.object_data[id].position),
                    !.update_queue = SelectSeq(@, LAMBDA queue_id : queue_id # id),
                    !.returned = <<st.object_data[id].object>>]
    ELSE st

\* ObjectManager::clear: the map, the grid and the queue emptied; total_time
\* is kept
store_clear(st) ==
    [st EXCEPT !.object_data = <<>>, !.grid = <<>>, !.update_queue = <<>>]

\* the body the three update loops share: update the object (a Rect with
\* no animation queued keeps its position), compare the position it has now
\* with the recorded one, move it in the grid, stamp last_update
update_one(st, id) ==
    LET old_position == st.object_data[id].position
        new_position == st.object_data[id].object.position
    IN  [st EXCEPT !.grid = IF old_position # new_position
                            THEN update_position(@, id, old_position, new_position)
                            ELSE @,
                   !.object_data[id].position = new_position,
                   !.object_data[id].last_update = st.total_time,
                   !.updated = Append(@, id)]

\* a loop test that lets one more update through, to compare with
\* batch_continues
batch_continues_inclusive(updates_performed, cap, queue) ==
    updates_performed <= cap /\ queue # <<>>

\* the test of the while loop of update_batch
batch_continues(updates_performed, cap, queue) ==
    updates_performed < cap /\ queue # <<>>

\* a re-queue at the front, to compare with requeue
requeue_front(queue, id) == <<id>> \o queue

\* self.update_queue.push_back(id)
requeue(queue, id) == Append(queue, id)

\* the while loop of update_batch
RECURSIVE batch_loop(_, _, _)
batch_loop(st, updates_performed, cap) ==
    IF batch_continues(updates_performed, cap, st.update_queue)
    THEN LET id == Head(st.update_queue)
             popped == [st EXCEPT !.update_queue = Tail(@)]
         IN  IF id \in DOMAIN st.object_data
             THEN batch_loop([update_one(popped, id) EXCEPT !.update_queue = requeue(@, id)],
                             updates_performed + 1, cap)
             ELSE batch_loop(popped, updates_performed, cap)
    ELSE st

\* the key of the sort: last_update, 0.0 for an id without a record
sort_key(od, id) == IF id \in DOMAIN od THEN od[id].last_update ELSE 0

\* slice::sort_by is stable: an element goes after those of a smaller or
\* equal key
RECURSIVE sort_by_last_update(_, _)
sort_by_last_update(queue, od) ==
    IF queue = <<>> THEN <<>>
    ELSE LET sorted == sort_by_last_update(Front(queue), od)
             e == Last(queue)
             before == {i \in 1..Len(sorted) : sort_key(od, sorted[i]) <= sort_key(od, e)}
             at == IF before = {} THEN 0 ELSE CHOOSE i \in before : \A j \in before : j <= i
         IN  SubSeq(sorted, 1, at) \o <<e>> \o SubSeq(sorted, at + 1, Len(sorted))

\* an update_batch that ends without the sort, to compare with sort_queue
sort_queue_skipped(st) == st

\* the sort that ends update_batch
sort_queue(st) ==
    [st EXCEPT !.update_queue = sort_by_last_update(@, st.object_data)]

\* ObjectManager::update_batch(delta_time, max_updates)
store_update_batch(st, delta_time, cap) ==
    sort_queue(batch_loop([st EXCEPT !.total_time = @ + delta_time], 0, cap))

\* the for loop of update_visible over the ids the grid returned
RECURSIVE visible_loop(_, _)
visible_loop(st, visible_ids) ==
    IF visible_ids = <<>> THEN st
    ELSE LET id == Head(visible_ids)
         IN  visible_loop(
                 IF /\ id \in DOMAIN st.object_data
                    /\ st.total_time - st.object_data[id].last_update
                          > UPDATE_PRIORITY_THRESHOLD
                 THEN update_one(st, id) ELSE st,
                 Tail(visible_ids))

\* ObjectManager::update_visible(camera_position, view_radius, delta_time)
store_update_visible(st, camera_position, view_radius) ==
    visible_loop(st, get_nearby_objects(st.grid, camera_position, view_radius))

\* the for loop of update_all over the ids in the order the HashMap
\* iterates them
RECURSIVE all_loop(_, _)
all_loop(st, order) ==
    IF order = <<>> THEN st ELSE all_loop(update_one(st, Head(order)), Tail(order))

\* ObjectManager::update_all(delta_time)
store_update_all(st, delta_time, order) ==
    all_loop([st EXCEPT !.total_time = @ + delta_time], order)

\* the orders a HashMap of these keys can iterate in
Orders(ids) ==
    {o \in [1..Cardinality(ids) -> ids] : \A i, j \in 1..Cardinality(ids) : i # j => o[i] # o[j]}

\* the ids of a sequence
Range(seq) == {seq[i] : i \in 1..Len(seq)}

\* what a call leaves in the variables: the store, the observation, and the
\* count for every object of the update_batch calls since its last update
SetStore(st, op, reset) ==
    /\ n_store_ops < MaxStoreOps
    /\ n_store_ops' = n_store_ops + 1
    /\ object_data' = st.object_data
    /\ grid' = st.grid
    /\ update_queue' = st.update_queue
    /\ total_time' = st.total_time
    /\ ocall' = [op |-> op, updated |-> st.updated, returned |-> st.returned]
    /\ starved' = [id \in DOMAIN st.object_data |->
                      IF reset \/ id \in Range(st.updated) \/ id \notin DOMAIN starved THEN 0
                      ELSE IF op = "update_batch" THEN starved[id] + 1
                      ELSE starved[id]]
    /\ UNCHANGED <<max_updates, hvars, bvars, cvars, rvars, avars>>

\* ObjectManager::add; the object may be a clone of one the store holds
add == \E id \in StoreIds : \E position \in Positions :
    /\ Len(update_queue) < MaxQueue
    /\ SetStore(store_add(Store, id, position), "add", TRUE)

\* ObjectManager::remove, of an id the store holds or not
remove == \E id \in StoreIds \cup DOMAIN object_data :
    SetStore(store_remove(Store, id), "remove", TRUE)

\* ObjectManager::clear
clear == SetStore(store_clear(Store), "clear", TRUE)

\* a caller moves an object through the handle ObjectManager::get returned:
\* get(id).borrow_mut().set_position(x, y)
set_position == \E id \in DOMAIN object_data :
                \E position \in Positions \ {object_data[id].object.position} :
    SetStore([Store EXCEPT !.object_data[id].object.position = position],
             "set_position", FALSE)

\* ObjectManager::update_batch
update_batch == \E delta_time \in DeltaTimes :
    SetStore(store_update_batch(Store, delta_time, max_updates), "update_batch", FALSE)

\* ObjectManager::update_visible
update_visible == \E camera_position \in Cameras : \E view_radius \in Radii :
    SetStore(store_update_visible(Store, camera_position, view_radius),
             "update_visible", FALSE)

\* ObjectManager::update_all
update_all == \E delta_time \in DeltaTimes : \E order \in Orders(DOMAIN object_data) :
    SetStore(store_update_all(Store, delta_time, order), "update_all", FALSE)

----------------------------------------------------------------------------
(* Hit resolution *)

\* the colours a sampled pixel can have: the usable colours and one more,
\* which no identity is ever given (the background)
Pixels == 0..ColorSpace

\* ObjectManager::get(id): Some(object) or None, as a sequence of length 1
\* or 0
store_get(objs, id) ==
    IF id \in DOMAIN objs THEN <<[id |-> id, object |-> objs[id].object]>> ELSE <<>>

\* a resolution that answers from the colour map alone, to compare with
\* get_trigger_object
get_trigger_object_unchecked(pixel_data) ==
    LET object_id == get_id_by_color(pixel_data)
    IN  IF object_id = 0 THEN <<>> ELSE <<[id |-> object_id, object |-> <<>>]>>

\* SceneManager::get_trigger_object, from the sampled pixel on:
\* ObjectId::get_id_by_color(color)?, then object_manager.get(&object_id)
get_trigger_object(pixel_data) ==
    LET object_id == get_id_by_color(pixel_data)
    IN  IF object_id = 0 THEN <<>> ELSE store_get(object_data, object_id)

\* a pointer event over a pixel of the identity buffer
on_pointer == \E pixel_data \in Pixels :
    /\ ocall' = [op |-> "pointer", updated |-> <<>>, returned |-> <<>>,
                 pixel |-> pixel_data,
                 result |-> get_trigger_object(pixel_data)]
    /\ UNCHANGED <<object_data, grid, update_queue, total_time, max_updates, starved,
                   n_store_ops, hvars, bvars, cvars, rvars, avars>>

\* App::add of an object made with ObjectId::new
add_created == \E id \in live_ids \ DOMAIN object_data :
    SetStore(store_add(Store, id, <<10, 10>>), "add", TRUE)

\* App::remove of an identity that was issued, in the store or not
remove_created == \E id \in DOMAIN id_to_color :
    SetStore(store_remove(Store, id), "remove", TRUE)

----------------------------------------------------------------------------
(* The AnimationManager *)

\* the AnimationManager fields as one value, with the Result a call returns
Manager == [init |-> init, animations |-> animations,
            queued_animations |-> queued_animations, ok |-> TRUE]

\* QwenAnimation::update(delta): elapsed += delta, Completed once elapsed
\* has reached the duration.  The time between two update calls is one
\* unit.
Animation_update(entry) == [entry EXCEPT !.elapsed = @ + 1]
Completed(entry) == entry.elapsed >= entry.duration

\* Vec::swap_remove(index): the last element takes the place of the
\* removed one
swap_remove(entries, index) ==
    IF index = Len(entries) THEN Front(entries)
    ELSE Front([entries EXCEPT ![index] = Last(entries)])

\* the for loop over animations.iter_mut().enumerate(): the entries as the
\* loop leaves them, the completed indices, and whether set_properties
\* returned Err, which `?` returns from update at once
RECURSIVE animate_loop(_, _, _, _, _)
animate_loop(entries, index, present, failing, completed_indices) ==
    IF index > Len(entries)
    THEN [animations |-> entries, completed_indices |-> completed_indices, ok |-> TRUE]
    ELSE IF entries[index].object_id \in present
    THEN LET updated == [entries EXCEPT ![index] = Animation_update(@)]
         IN  IF Completed(updated[index])
             THEN animate_loop(updated, index + 1, present, failing,
                               Append(completed_indices, index))
             ELSE IF updated[index].object_id \in failing
             THEN [animations |-> updated, completed_indices |-> completed_indices,
                   ok |-> FALSE]
             ELSE animate_loop(updated, index + 1, present, failing, completed_indices)
    ELSE animate_loop(entries, index + 1, present, failing,
                      Append(completed_indices, index))

\* for &index in completed_indices.iter().rev() { swap_remove(index) }
RECURSIVE remove_completed(_, _)
remove_completed(entries, completed_indices) ==
    IF completed_indices = <<>> THEN entries
    ELSE remove_completed(swap_remove(entries, Last(completed_indices)),
                          Front(completed_indices))

\* AnimationManager::update(objects): `present` are the keys of objects,
\* `failing` the objects whose set_properties returns Err
AnimationManager_update_of(m, present, failing) ==
    IF ~m.init THEN [m EXCEPT !.init = TRUE]
    ELSE LET looped == animate_loop(m.animations, 1, present, failing, <<>>)
         IN  IF ~looped.ok
             THEN [m EXCEPT !.animations = looped.animations, !.ok = FALSE]
             ELSE [m EXCEPT !.animations =
                                remove_completed(looped.animations,
                                                 looped.completed_indices)
                                    \o m.queued_animations,
                            !.queued_animations = <<>>]

\* what a call leaves in the variables
SetManager(m, op, present, failing) ==
    /\ n_anim_ops < MaxAnimOps
    /\ n_anim_ops' = n_anim_ops + 1
    /\ init' = m.init
    /\ animations' = m.animations
    /\ queued_animations' = m.queued_animations
    /\ acall' = [op |-> op, ok |-> m.ok, present |-> present, failing |-> failing]
    /\ UNCHANGED <<hvars, bvars, cvars, ovars, rvars>>

\* an AnimationEntry: the target and the animation, numbered by the model
\* to tell one animation from another
NewEntry(object_id, duration) ==
    [n |-> n_animations + 1, object_id |-> object_id, elapsed |-> 0,
     duration |-> duration]

\* AnimationManager::add_animation
add_animation == \E object_id \in AnimatedIds : \E duration \in Durations :
    /\ n_animations < MaxAnimations
    /\ n_animations' = n_animations + 1
    /\ SetManager([Manager EXCEPT !.animations = Append(@, NewEntry(object_id, duration))],
                  "add_animation", {}, {})

\* AnimationManager::queue_animation
queue_animation == \E object_id \in AnimatedIds : \E duration \in Durations :
    /\ n_animations < MaxAnimations
    /\ n_animations' = n_animations + 1
    /\ SetManager([Manager EXCEPT
                      !.queued_animations = Append(@, NewEntry(object_id, duration))],
                  "queue_animation", {}, {})

\* AnimationManager::update
AnimationManager_update ==
    \E present \in SUBSET AnimatedIds : \E failing \in SUBSET present :
        /\ UNCHANGED n_animations
        /\ SetManager(AnimationManager_update_of(Manager, present, failing),
                      "update", present, failing)

\* AnimationManager::new
InitAnimations ==
    /\ init = FALSE
    /\ animations = <<>>
    /\ queued_animations = <<>>
    /\ acall = [op |-> "new", ok |-> TRUE, present |-> {}, failing |-> {}]
    /\ n_animations = 0
    /\ n_anim_ops = 0

----------------------------------------------------------------------------
(* The history specification: the App after construction, one object in    *)
(* the store, the SceneManager and the History attached                    *)

InitLive ==
    /\ objects = [i \in {"A"} |-> [x |-> 0]]
    /\ scene = [zoom |-> 10, rotation |-> 0, center_x |-> 0, center_y |-> 0]
    /\ scene_attached = TRUE
    /\ panicked = FALSE

InitHistory ==
    /\ undo_stack = <<>>
    /\ redo_stack = <<>>
    /\ current_unit = NoUnit
    /\ last_push_time = 0
    /\ is_undoing = FALSE
    /\ is_redoing = FALSE
    /\ now = 0
    /\ call = OtherCall("new", TRUE)
    /\ n_mutations = 0
    /\ mark = [obs |-> Observable, pushed |-> TRUE]
    /\ depth = 0

\* RenderControl::new
InitBus ==
    /\ buffer = <<>>
    /\ last_flush = 0
    /\ spawned = <<>>
    /\ channel = <<>>
    /\ received = <<>>
    /\ flushed = <<>>
    /\ dropped = <<>>
    /\ bcall = [op |-> "new", elapsed |-> 0, jitter |-> 0, buffered |-> 0]
    /\ n_messages = 0

\* Rect::new: the fields from the options, dirty
InitRect == rect = [id |-> "A", x |-> 0, y |-> 0, dirty |-> TRUE]

\* ID_COLOR_MAP: Lazy::new(|| (HashMap::new(), HashMap::new())), COUNTER 0
InitColors ==
    /\ id_to_color = <<>>
    /\ color_to_id = <<>>
    /\ n_ids = 0
    /\ pending = 0
    /\ color_id = 0
    /\ issued = <<>>
    /\ live_ids = {}

\* ObjectManager::new; the frame loop's max_updates is any of BatchCaps
EmptyStore ==
    [object_data |-> <<>>, grid |-> <<>>, update_queue |-> <<>>, total_time |-> 0,
     updated |-> <<>>]

InitStoreAs(st, caps) ==
    /\ object_data = st.object_data
    /\ grid = st.grid
    /\ update_queue = st.update_queue
    /\ total_time = st.total_time
    /\ max_updates \in caps
    /\ ocall = [op |-> "new", updated |-> <<>>, returned |-> <<>>]
    /\ starved = [id \in DOMAIN st.object_data |-> 0]
    /\ n_store_ops = 0

InitStore == InitStoreAs(EmptyStore, {1})

\* the empty store, under each max_updates the frame loop may use
InitObjects ==
    /\ InitLive /\ InitHistory /\ InitBus /\ InitColors /\ InitRect /\ InitAnimations
    /\ InitStoreAs(EmptyStore, BatchCaps)

\* the store after A, B and C were added, each in a cell of its own
ThreeObjects ==
    store_add(store_add(store_add(EmptyStore, "A", <<10, 10>>), "B", <<150, 10>>),
              "C", <<200, 10>>)

Init == InitLive /\ InitHistory /\ InitBus /\ InitColors /\ InitRect /\ InitAnimations /\ InitStore

\* the state the scheduling is studied from: everything as constructed,
\* three objects in the store
InitSchedule ==
    /\ InitLive /\ InitHistory /\ InitBus /\ InitColors /\ InitRect /\ InitAnimations
    /\ InitStoreAs(ThreeObjects, BatchCaps)

NextHistory ==
    \/ update_rotation
    \/ RecordObjectUpdate
    \/ RecordAddElement
    \/ RecordRemoveElement
    \/ detach
    \/ Tick
    \/ undo
    \/ redo

SpecHistory == Init /\ [][NextHistory]_vars

\* The jump specification: a client that records object changes, the
\* clock, undo, redo and the two jumps to a time
NextHistoryTime ==
    \/ RecordObjectUpdate
    \/ detach
    \/ Tick
    \/ undo
    \/ redo
    \/ undo_to_time
    \/ redo_to_time

SpecHistoryTime == Init /\ [][NextHistoryTime]_vars

\* The log specification: the jump specification with History::clear
NextHistoryLog ==
    \/ NextHistoryTime
    \/ History_clear

SpecHistoryLog == Init /\ [][NextHistoryLog]_vars

\* The scene specification: the mutators of the SceneManager and the clock
NextScene ==
    \/ update_rotation
    \/ set_zoom
    \/ set_rotation
    \/ set_center
    \/ Tick

SpecScene == Init /\ [][NextScene]_vars

\* The animation specification: animations are added and queued, and the
\* frame loop calls update with the objects it has
NextAnimations ==
    \/ add_animation
    \/ queue_animation
    \/ AnimationManager_update

SpecAnimations == Init /\ [][NextAnimations]_vars

\* The payload specification: callers that record object changes, some of
\* them with a payload that does not deserialize, and the replays
NextPayload ==
    \/ RecordObjectUpdate
    \/ RecordMalformedUpdate
    \/ RecordMalformedScene
    \/ detach
    \/ Tick
    \/ undo
    \/ redo

SpecPayload == Init /\ [][NextPayload]_vars

\* The setter specification: the generated setters of a Rect, the scene
\* mutator update_rotation, the code that clears the dirty flag, and the
\* clock of the bus
NextSetter ==
    \/ set_x
    \/ set_y
    \/ set_multiple_call
    \/ set_dirty_flag
    \/ update_rotation
    \/ TickBus

SpecSetter == Init /\ [][NextSetter]_vars

\* The hit specification: identities are issued, their objects enter and
\* leave the store, and the pointer samples the identity buffer
NextHit ==
    \/ ObjectId_new
    \/ generate_unique_color_id
    \/ add_created
    \/ remove_created
    \/ on_pointer

SpecHit == Init /\ [][NextHit]_vars

\* The bus specification: a producer, the executor's send tasks and the
\* consumer, interleaved
NextBus ==
    \/ AddUpdate
    \/ AddForceUpdate
    \/ RunSendTask
    \/ receive_messages
    \/ TickBus

SpecBus == Init /\ [][NextBus]_vars

\* The bus with its scheduling: the executor runs every spawned task, an
\* awaiting consumer is resumed when a batch is queued, and time passes.
\* Nothing obliges a producer to call add_message again.
SpecBusFair ==
    /\ SpecBus
    /\ WF_vars(RunSendTask)
    /\ WF_vars(receive_messages)
    /\ WF_vars(TickBus)

\* The allocator specification: identities are requested, their objects
\* dropped
NextColors ==
    \/ ObjectId_new
    \/ generate_unique_color_id
    \/ drop_object

SpecColors == Init /\ [][NextColors]_vars

\* The allocator with its loop running: a call of generate_unique_color_id
\* that can take a turn does take it
SpecColorsFair == SpecColors /\ WF_vars(generate_unique_color_id)

\* The store specification: objects are added, removed, moved through
\* their handles, and updated
NextStore ==
    \/ add
    \/ remove
    \/ set_position
    \/ update_batch
    \/ update_visible
    \/ update_all

SpecStore == InitObjects /\ [][NextStore]_vars

\* The membership specification: the calls of ObjectManager that add,
\* remove and update objects, none of which is moved by its owner
NextObjects ==
    \/ add
    \/ remove
    \/ clear
    \/ update_batch
    \/ update_visible
    \/ update_all

SpecObjects == InitObjects /\ [][NextObjects]_vars

\* The grid specification: objects enter and leave the store
NextGrid ==
    \/ add
    \/ remove

SpecGrid == InitObjects /\ [][NextGrid]_vars

\* The scheduling specification: a fixed set of objects, the three update
\* entry points called in any order
NextSchedule ==
    \/ update_batch
    \/ update_visible
    \/ update_all

SpecSchedule == InitSchedule /\ [][NextSchedule]_vars

----------------------------------------------------------------------------
(* Claims about History *)

\* a step that is a call of the History or of one of its clients: the
\* clock and the attachment are the two things only the other steps change
ApiStep == UNCHANGED <<now, scene_attached>>

PushStep == ApiStep /\ call'.op = "push"

\* C1: undo/redo round trip.  `mark.obs` is the observable state right
\* after the last mutation, `mark.pushed` says that every mutation so far
\* was handed to History::push, and `depth` is the number of undo calls
\* minus the number of redo calls that returned true since the last
\* mutation; when a redo returns true and has evened the count, the
\* observable state is the marked one again.
C1_RoundTrip ==
    (call.op = "redo" /\ call.ret /\ depth = 0 /\ mark.pushed) => Observable = mark.obs

\* C2: redo invalidation.  A push that follows a successful undo leaves the
\* redo stack empty, so that can_redo() is false.
C2_RedoInvalidation ==
    [][(call.op = "undo" /\ call.ret /\ PushStep)
          => redo_stack' = <<>>]_vars

\* C3: every push made by a client (none of them runs inside a replay) is
\* recorded: the item is the last item of the open unit, which is a new unit
\* when none was open or the quiet period had elapsed and the open unit
\* extended otherwise, and can_undo() is true.
C3_PushRecorded ==
    [][PushStep
          => /\ current_unit' # NoUnit
             /\ current_unit'[1].items =
                   IF current_unit = NoUnit \/ now - last_push_time > QuietPeriod
                   THEN <<call'.item>>
                   ELSE Append(current_unit[1].items, call'.item)
             /\ (undo_stack' # <<>> \/ current_unit' # NoUnit)]_vars

\* C4: a push that finds is_undoing or is_redoing set leaves the undo
\* stack, the redo stack, the open unit and last_push_time as they were.
C4_GuardedPushFrame ==
    [][(PushStep /\ (is_undoing \/ is_redoing))
          => UNCHANGED <<undo_stack, redo_stack, current_unit, last_push_time>>]_vars

\* C4 witness: a push has just been made with a flag set, at a later time
\* than the previous recorded push and with units on both stacks.
C4_Witness ==
    /\ call.op = "push" /\ call.guarded
    /\ call.t > last_push_time
    /\ redo_stack # <<>> /\ undo_stack # <<>>

\* C5: history windowing.  Of two consecutive pushes the first of which
\* found no open unit, the second joins the first in one open unit of 2
\* items when the gap is at most the quiet period, and otherwise the first
\* is finalized on top of the undo stack and the second is alone in the
\* open unit.
C5_Windowing ==
    [][(call.op = "push" /\ call.fresh /\ PushStep)
          => IF call'.t - call.t <= QuietPeriod
             THEN /\ current_unit' # NoUnit
                  /\ current_unit'[1].items = <<call.item, call'.item>>
             ELSE /\ current_unit' # NoUnit
                  /\ current_unit'[1].items = <<call'.item>>
                  /\ undo_stack' # <<>>
                  /\ Last(undo_stack').items = <<call.item>>]_vars

\* the payload of an item written as the spec describes undo: the object's
\* property or the scene's fields take the values of the undo payload, an
\* added element goes and a removed element comes back
AssignUndo(obs, item) ==
    CASE item.kind = "ObjectUpdate" ->
            [obs EXCEPT !.objects[item.object_id].x = item.undo_data.x]
      [] item.kind = "SceneUpdate" ->
            [obs EXCEPT !.scene.zoom = item.undo_data.zoom,
                        !.scene.rotation = item.undo_data.rotation % FullTurn]
      [] item.kind = "AddElement" ->
            [obs EXCEPT !.objects = [i \in DOMAIN @ \ {item.element_id} |-> @[i]]]
      [] item.kind = "RemoveElement" ->
            [obs EXCEPT !.objects = [i \in DOMAIN @ \cup {item.element_id} |->
                                        IF i = item.element_id THEN item.element_data
                                        ELSE @[i]]]

RECURSIVE AssignUndoAll(_, _)
AssignUndoAll(obs, items) ==
    IF items = <<>> THEN obs
    ELSE AssignUndoAll(AssignUndo(obs, Last(items)), Front(items))

\* C6: undo() with something to undo finalizes the open unit, pops the most
\* recent unit, applies its items last to first with their undo payloads,
\* pushes the unit onto the redo stack and returns true.
C6_Undo ==
    [][(ApiStep /\ call'.op = "undo" /\ (undo_stack # <<>> \/ current_unit # NoUnit))
          => LET stack == undo_stack \o current_unit
             IN  /\ call'.ret
                 /\ current_unit' = NoUnit
                 /\ undo_stack' = Front(stack)
                 /\ redo_stack' = Append(redo_stack, Last(stack))
                 /\ Observable' = AssignUndoAll(Observable, Last(stack).items)]_vars

----------------------------------------------------------------------------
(* Claims about RenderControl *)

\* a step that is one add_message call
BusCallStep == n_messages' = n_messages + 1

\* the messages of a batch, as a set
Messages(batch) == {batch[i] : i \in 1..Len(batch)}

\* higher priority first, and arrival order among equal priorities
PriorityOrdered(buf) ==
    \A i, j \in 1..Len(buf) :
        i < j => \/ buf[i].priority > buf[j].priority
                 \/ buf[i].priority = buf[j].priority /\ buf[i].seq < buf[j].seq

\* C7: a ForceUpdate arriving when N >= 1 messages are buffered hands the
\* consumer side exactly one new batch, holding exactly those N messages in
\* priority order, whatever time has passed since the last flush, and
\* leaves the buffer empty.
C7_ForceFlush ==
    [][(BusCallStep /\ bcall'.op = "force" /\ buffer # <<>>) =>
          /\ Len(spawned') = Len(spawned) + 1
          /\ spawned' = Append(spawned, Last(spawned'))
          /\ flushed' = Append(flushed, Last(spawned'))
          /\ Len(Last(spawned')) = Len(buffer)
          /\ Messages(Last(spawned')) = Messages(buffer)
          /\ PriorityOrdered(Last(spawned'))
          /\ buffer' = <<>>]_vars

\* a ForceUpdate has just flushed two buffered messages of different
\* priorities before the flush interval had passed
C7_Witness ==
    /\ bcall.op = "force"
    /\ bcall.buffered >= 2
    /\ bcall.elapsed < flush_interval
    /\ buffer = <<>>
    /\ flushed # <<>>
    /\ Len(Last(flushed)) = bcall.buffered
    /\ \E m1, m2 \in Messages(Last(flushed)) : m1.priority # m2.priority

\* C8: the buffer is always ordered by priority, highest first, and
\* messages of equal priority keep their order of arrival.
C8_BufferOrdered == PriorityOrdered(buffer)

\* three buffered messages: two of equal priority in arrival order, and a
\* later message of higher priority ahead of an earlier one
C8_Witness ==
    /\ Len(buffer) >= 3
    /\ \E i, j \in 1..Len(buffer) :
          i < j /\ buffer[i].priority = buffer[j].priority
    /\ \E i, j \in 1..Len(buffer) :
          i < j /\ buffer[i].priority > buffer[j].priority /\ buffer[i].seq > buffer[j].seq

\* C9: an Update is inserted and the buffer is then flushed exactly when at
\* least flush_interval has passed since the last flush; the flush sends
\* every buffered message, the new one included, as one batch, and restarts
\* the interval.
C9_TimedFlush ==
    [][(BusCallStep /\ bcall'.op = "update") =>
          IF now - last_flush >= flush_interval
          THEN /\ buffer' = <<>>
               /\ Len(spawned') = Len(spawned) + 1
               /\ spawned' = Append(spawned, Last(spawned'))
               /\ Len(Last(spawned')) = Len(buffer) + 1
               /\ Messages(buffer) \subseteq Messages(Last(spawned'))
               /\ last_flush' = now
          ELSE /\ Len(buffer') = Len(buffer) + 1
               /\ UNCHANGED <<spawned, last_flush>>]_vars

\* where a batch stands in the order of flushing
FlushIndex(batch) == CHOOSE k \in 1..Len(flushed) : flushed[k] = batch

\* C10: the consumer receives batches in the order they were flushed.
C10_BatchOrder ==
    /\ \A i \in 1..Len(received) : received[i] \in Messages(flushed)
    /\ \A i, j \in 1..Len(received) :
          i < j => FlushIndex(received[i]) < FlushIndex(received[j])

\* three batches were flushed, the second was dropped by its send task,
\* and the consumer has received the first and then the third
C10_Witness ==
    /\ Len(flushed) >= 3
    /\ received = <<flushed[1], flushed[3]>>

\* the batches a sequence of batches holds a message in
Holding(batches, m) == {k \in 1..Len(batches) : m \in Messages(batches[k])}

\* every message accepted so far
Accepted == Messages(buffer) \cup UNION {Messages(flushed[k]) : k \in 1..Len(flushed)}

\* C11: a batch whose send failed is dropped and that is all: it is no
\* longer a pending task, it is not queued and is never received, none of
\* its messages is back in the buffer or in another batch, and the step that
\* dropped it changed nothing of the producer's side.  Every accepted
\* message is in at most one flushed batch and is received at most once.
C11_DroppedOnce ==
    /\ \A k \in 1..Len(dropped) :
          /\ dropped[k] \notin Messages(spawned) \cup Messages(channel) \cup Messages(received)
          /\ Messages(dropped[k]) \cap Messages(buffer) = {}
          /\ Cardinality({j \in 1..Len(dropped) : dropped[j] = dropped[k]}) = 1
    /\ \A m \in Accepted :
          /\ Cardinality(Holding(flushed, m)) <= 1
          /\ Cardinality(Holding(received, m)) <= 1
          /\ m \in Messages(buffer) => Holding(flushed, m) = {}

\* a batch was dropped, and the consumer has received a batch flushed
\* before it and a batch flushed after it
C11_Witness ==
    /\ dropped # <<>>
    /\ \E k \in 1..Len(received) :
          FlushIndex(received[k]) < FlushIndex(dropped[1])
    /\ \E k \in 1..Len(received) :
          FlushIndex(received[k]) > FlushIndex(dropped[1])

\* C12: once the flush interval has passed since the last flush, whatever
\* is still buffered is eventually emitted as a batch.
C12_WindowFlush ==
    (buffer # <<>> /\ now - last_flush >= flush_interval) ~> (buffer = <<>>)

----------------------------------------------------------------------------
(* Claims about the identity allocator *)

\* C17: the colours of all identities ever issued are pairwise distinct,
\* also those of dropped objects; both maps hold exactly what was issued,
\* so an entry is never changed; and the maps are each other's inverse.
C17_ColorUnique ==
    /\ \A i, j \in 1..Len(issued) :
          i # j => issued[i].color # issued[j].color /\ issued[i].id # issued[j].id
    /\ DOMAIN id_to_color = {issued[i].id : i \in 1..Len(issued)}
    /\ DOMAIN color_to_id = {issued[i].color : i \in 1..Len(issued)}
    /\ \A i \in 1..Len(issued) :
          /\ get_color_by_id(issued[i].id) = issued[i].color
          /\ get_id_by_color(get_color_by_id(issued[i].id)) = issued[i].id

\* three identities were issued, the loop having drawn a taken colour on
\* the way, and the object of the first was dropped before the last was
\* issued a colour
C17_Witness ==
    /\ Len(issued) >= 3
    /\ issued[1].id \notin live_ids
    /\ issued[Len(issued)].id \in live_ids
    /\ pending # 0
    /\ color_id \in DOMAIN color_to_id
    /\ color_to_id[color_id] = issued[1].id

\* C18: when every usable colour has been issued, a further allocation
\* comes to an end.
C18_ExhaustionReported ==
    (pending # 0 /\ DOMAIN color_to_id = Colors) ~> (pending = 0)

----------------------------------------------------------------------------
(* Claims about the object store *)

\* a step that is one call of the store
StoreStep(op) == n_store_ops' = n_store_ops + 1 /\ ocall'.op = op

\* the cells of the grid that list an id
CellsOf(id) == {c \in DOMAIN grid : id \in Range(grid[c])}

\* C13: every object of the store is listed in exactly one cell of the
\* grid, once, and that cell is the cell of the position the object has
\* now.
C13_GridConsistent ==
    \A id \in DOMAIN object_data :
        /\ CellsOf(id) = {world_to_cell(object_data[id].object.position)}
        /\ \A c \in CellsOf(id) :
              Cardinality({i \in 1..Len(grid[c]) : grid[c][i] = id}) = 1

\* the store holds A and B at these positions and the grid has seen them
Placed(pos_a, pos_b) ==
    /\ DOMAIN object_data = {"A", "B"}
    /\ object_data["A"].object.position = pos_a
    /\ object_data["B"].object.position = pos_b
    /\ \A id \in {"A", "B"} : object_data[id].position = object_data[id].object.position

\* C14: with A at (10,10) and B at (150,10) the nearby query at (0,0) with
\* radius 50 returns A only; with A moved to (200,10) and the grid updated
\* it returns nothing.
C14_NearbyScenario ==
    /\ Placed(<<10, 10>>, <<150, 10>>)
          => Range(get_nearby_objects(grid, <<0, 0>>, 50)) = {"A"}
    /\ Placed(<<200, 10>>, <<150, 10>>)
          => Range(get_nearby_objects(grid, <<0, 0>>, 50)) = {}

\* C15: one update_batch call updates at most max_updates times, none when
\* max_updates is 0; it stamps no object it did not update; the queue
\* holds the same ids as before, and the objects it updated are its tail.
C15_BatchBounded ==
    [][StoreStep("update_batch") =>
          LET done == Range(ocall'.updated)
          IN  /\ Len(ocall'.updated) <= max_updates
              /\ max_updates = 0 => object_data' = object_data
              /\ \A id \in DOMAIN object_data :
                    id \notin done => object_data'[id] = object_data[id]
              /\ Len(update_queue') = Len(update_queue)
              /\ Range(update_queue') = Range(update_queue)
              /\ \E n \in 0..Len(update_queue') :
                    /\ \A i \in 1..n : update_queue'[i] \notin done
                    /\ \A i \in (n + 1)..Len(update_queue') : update_queue'[i] \in done]_vars

\* an update_batch call with max_updates = 2 on three objects has just
\* updated two of them, which are now behind the third
C15_Witness ==
    /\ ocall.op = "update_batch"
    /\ max_updates = 2
    /\ Cardinality(DOMAIN object_data) = 3
    /\ Cardinality(Range(ocall.updated)) = 2
    /\ update_queue[1] \notin Range(ocall.updated)
    /\ Range(SubSeq(update_queue, 2, 3)) = Range(ocall.updated)

\* ceil(N / k)
Window == (Cardinality(DOMAIN object_data) + max_updates - 1) \div max_updates

----------------------------------------------------------------------------
(* The jumps to a time *)

\* the units of a stack that satisfy a test on their timestamp, in order
RECURSIVE UnitsAtOrBefore(_, _)
UnitsAtOrBefore(stack, t) ==
    IF stack = <<>> THEN <<>>
    ELSE IF Head(stack).timestamp <= t
         THEN <<Head(stack)>> \o UnitsAtOrBefore(Tail(stack), t)
         ELSE UnitsAtOrBefore(Tail(stack), t)

RECURSIVE UnitsAfter(_, _)
UnitsAfter(stack, t) ==
    IF stack = <<>> THEN <<>>
    ELSE IF Head(stack).timestamp > t
         THEN <<Head(stack)>> \o UnitsAfter(Tail(stack), t)
         ELSE UnitsAfter(Tail(stack), t)

\* timestamps non-decreasing from the first unit to the last
NonDecreasing(stack) ==
    \A i \in 1..(Len(stack) - 1) : stack[i].timestamp <= stack[i + 1].timestamp

\* C19: undo_to_time(t) on an undo stack with non-decreasing timestamps
\* leaves on the undo stack exactly the units with timestamp <= t, in their
\* order, and puts the units with timestamp > t on the redo stack newest
\* first, so that redo() (which pops the last) re-applies the oldest first.
C19_UndoToTime ==
    (call.op = "undo_to_time" /\ NonDecreasing(call.undo_before)) =>
        /\ undo_stack = UnitsAtOrBefore(call.undo_before, call.t)
        /\ redo_stack = call.redo_before \o Reverse(UnitsAfter(call.undo_before, call.t))

\* C20: redo_to_time(t), on a redo stack holding the undone units newest
\* first, appends to the undo stack exactly the units with timestamp <= t,
\* oldest first, and leaves the units with timestamp > t on the redo stack.
C20_RedoToTime ==
    (call.op = "redo_to_time" /\ NonDecreasing(Reverse(call.redo_before))) =>
        /\ undo_stack = call.undo_before \o Reverse(UnitsAtOrBefore(call.redo_before, call.t))
        /\ redo_stack = UnitsAfter(call.redo_before, call.t)

\* the live state of the App when the history starts
InitialLive ==
    [objects |-> InitialObjects,
     scene |-> [zoom |-> 10, rotation |-> 0, center_x |-> 0, center_y |-> 0],
     panicked |-> FALSE]

\* a stack with one more unit, placed after the units not later than it
RECURSIVE InsertByTime(_, _)
InsertByTime(stack, unit) ==
    IF stack = <<>> THEN <<unit>>
    ELSE IF Head(stack).timestamp <= unit.timestamp
         THEN <<Head(stack)>> \o InsertByTime(Tail(stack), unit)
         ELSE <<unit>> \o stack

\* the units of a stack from oldest to newest
RECURSIVE Chronological(_)
Chronological(stack) ==
    IF stack = <<>> THEN <<>>
    ELSE InsertByTime(Chronological(Front(stack)), Last(stack))

\* the history of a stack re-run from scratch: every unit from oldest to
\* newest, items in forward order with their redo payloads
Rerun(stack) == apply_units(InitialLive, Chronological(stack), FALSE, FALSE)

\* C21: after undo_to_time(t) or redo_to_time(t) the live state is the
\* initial state with every unit left on the undo stack applied from oldest
\* to newest, items forward with their redo payloads.
C21_JumpRerunsHistory ==
    call.op \in {"undo_to_time", "redo_to_time"} =>
        Observable = Observe(Rerun(undo_stack).objects, Rerun(undo_stack).scene)

----------------------------------------------------------------------------
(* undo and redo with nothing to replay *)

\* C22: undo() with no open unit and an empty undo stack returns false and
\* changes nothing: the stacks, the replay flags and the live state are as
\* before the call.
C22_UndoNothing ==
    [][(undo /\ current_unit = NoUnit /\ undo_stack = <<>>) =>
          /\ call'.ret = FALSE
          /\ UNCHANGED <<undo_stack, redo_stack, is_undoing, is_redoing, objects, scene>>]_vars

\* C23: redo() with an empty redo stack returns false and changes nothing:
\* the stacks, the open unit and the live state are as before the call.
C23_RedoNothing ==
    [][(redo /\ redo_stack = <<>>) =>
          /\ call'.ret = FALSE
          /\ UNCHANGED <<undo_stack, redo_stack, current_unit, objects, scene>>]_vars

----------------------------------------------------------------------------
(* Payloads that do not deserialize *)

\* the unit undo() is about to replay
NextUndone == Last(finalize_current_unit(History).undo_stack)

Malformed(item) ==
    item.kind \in {"ObjectUpdate", "SceneUpdate"} /\ item.undo_data = JsonNull

RECURSIVE WellFormedItems(_)
WellFormedItems(items) ==
    IF items = <<>> THEN <<>>
    ELSE IF Malformed(Head(items)) THEN WellFormedItems(Tail(items))
    ELSE <<Head(items)>> \o WellFormedItems(Tail(items))

\* the live state with the well-formed items of the unit undone
OthersUndone == apply_items(Live, Reverse(WellFormedItems(NextUndone.items)), TRUE, FALSE)

\* C24: when a unit holds an item whose payload does not deserialize, its
\* replay does not abort and the other items of the unit are still applied.
C24_MalformedIsolated ==
    [][(undo /\ can_undo(History) /\ \E i \in DOMAIN NextUndone.items :
                                          Malformed(NextUndone.items[i])) =>
          /\ panicked' = FALSE
          /\ Observe(objects', scene') = Observe(OthersUndone.objects, OthersUndone.scene)]_vars

----------------------------------------------------------------------------
(* The mutators and what they record *)

\* the number of items the history holds: those of the units of the undo
\* stack and those of the open unit
RECURSIVE ItemCount(_)
ItemCount(units) ==
    IF units = <<>> THEN 0 ELSE Len(Head(units).items) + ItemCount(Tail(units))

Recorded == ItemCount(undo_stack) + ItemCount(current_unit)

\* a call of a generated setter that assigns a field
SetterStep ==
    /\ n_messages' = n_messages + 1
    /\ bcall'.op \in {"set_x", "set_y", "set_multiple"}

\* C25: every mutation made outside a replay by a generated setter or by a
\* SceneManager mutator appends one item to the history.
C25_MutationRecorded ==
    [][((SetterStep /\ DOMAIN bcall'.updates # {}) \/ n_mutations' = n_mutations + 1) =>
          Recorded' = Recorded + 1]_vars

\* every message the bus has been given: those buffered and those flushed
Flatten(batches) ==
    UNION {{batches[k][i] : i \in DOMAIN batches[k]} : k \in DOMAIN batches}

Given == {buffer[i] : i \in DOMAIN buffer} \cup Flatten(flushed)

\* C26: a generated setter sets its field, marks the object dirty and adds
\* exactly one Update message: target ObjectUpdate(own id), payload the
\* provided fields only, priority 0.  set_multiple does so with all the
\* provided fields, and with none provided adds no message and leaves the
\* dirty flag as it was.
C26_SetterMessage ==
    [][SetterStep =>
          IF DOMAIN bcall'.updates = {}
          THEN Given' = Given /\ rect' = rect
          ELSE /\ \A f \in DOMAIN bcall'.updates : rect'[f] = bcall'.updates[f]
               /\ \A f \in FieldNames \ DOMAIN bcall'.updates : rect'[f] = rect[f]
               /\ rect'.dirty
               /\ Given \subseteq Given'
               /\ Cardinality(Given' \ Given) = 1
               /\ \A m \in Given' \ Given :
                      /\ m.update_type = [object |-> rect.id]
                      /\ m.data = bcall'.updates
                      /\ m.priority = 0]_vars

\* a single-field setter has found the flag clear, and set_multiple with
\* nothing provided has left it clear
C26_Witness ==
    /\ bcall.op = "set_multiple" /\ DOMAIN bcall.updates = {} /\ ~rect.dirty
    /\ \E m \in Given : DOMAIN m.data = {"x"}
    /\ \E m \in Given : DOMAIN m.data = FieldNames

----------------------------------------------------------------------------
(* Hit resolution *)

\* the identities in the store whose colour key is this colour
KeyedBy(color) == {id \in DOMAIN object_data : get_color_by_id(id) = color}

\* C27: hit resolution returns an object only when the sampled colour is the
\* colour key of an identity whose object is in the store, and then that
\* object; any other colour resolves to no object.
C27_HitResolution ==
    [][on_pointer =>
          IF KeyedBy(ocall'.pixel) = {}
          THEN ocall'.result = <<>>
          ELSE /\ Len(ocall'.result) = 1
               /\ ocall'.result[1].id \in KeyedBy(ocall'.pixel)
               /\ ocall'.result[1].object = object_data[ocall'.result[1].id].object]_vars

\* a pixel resolved to an object of the store, while another identity that
\* was issued has its object outside the store
C27_Witness ==
    /\ ocall.op = "pointer"
    /\ ocall.result # <<>>
    /\ ocall.result[1].id \in DOMAIN object_data
    /\ \E id \in DOMAIN id_to_color : id \notin DOMAIN object_data

----------------------------------------------------------------------------
(* add and remove *)

AddStep(id, position) ==
    /\ Len(update_queue) < MaxQueue
    /\ SetStore(store_add(Store, id, position), "add", TRUE)

\* every id recorded in some cell of a grid
Gridded(cells) == UNION {Range(cells[c]) : c \in DOMAIN cells}

\* C28: after add(object) the store contains the object's id, get(id)
\* returns the object, its last_update is the store's total_time, its id is
\* at the back of the update queue, and the id is recorded in the cell of
\* the object's position.
C28_AddRecords ==
    [][\A id \in StoreIds : \A position \in Positions :
          AddStep(id, position) =>
              /\ id \in DOMAIN object_data'
              /\ store_get(object_data', id) =
                     <<[id |-> id, object |-> [position |-> position]]>>
              /\ object_data'[id].last_update = total_time'
              /\ Last(update_queue') = id
              /\ LET cell == <<position[1] \div GRID_CELL_SIZE,
                               position[2] \div GRID_CELL_SIZE>>
                 IN  cell \in DOMAIN grid' /\ id \in Range(grid'[cell])]_vars

\* an object was added behind another, after time had passed
C28_Witness ==
    /\ ocall.op = "add"
    /\ total_time > 0
    /\ Len(update_queue) >= 2
    /\ object_data[Last(update_queue)].last_update = total_time

RemoveStep(id) == SetStore(store_remove(Store, id), "remove", TRUE)

----------------------------------------------------------------------------
(* The nearby query *)

\* the least number of cells that covers a radius: ceil(r / 100)
Rings(r) ==
    CHOOSE k \in 0..4 : (k - 1) * GRID_CELL_SIZE < r /\ r <= k * GRID_CELL_SIZE

\* the cell a coordinate falls in: floor(v / 100)
CellOf(v) ==
    CHOOSE c \in -4..4 : c * GRID_CELL_SIZE <= v /\ v < (c + 1) * GRID_CELL_SIZE

Distance(a, b) == IF a >= b THEN a - b ELSE b - a

\* the ids recorded in the cells within the rings of radius r around the
\* cell of position p
InRings(p, r) ==
    UNION {Range(grid[c]) : c \in {c \in DOMAIN grid :
               /\ Distance(c[1], CellOf(p[1])) <= Rings(r)
               /\ Distance(c[2], CellOf(p[2])) <= Rings(r)}}

\* C30: the nearby query at p with radius r returns, as a set, exactly the
\* ids recorded in the cells at most ceil(r/100) cells away, in x and in
\* y, from the cell (floor(p.x/100), floor(p.y/100)).
C30_NearbyRings ==
    \A p \in QueryPositions : \A r \in QueryRadii :
        Range(get_nearby_objects(grid, p, r)) = InRings(p, r)

\* a query returns an object of a neighbouring cell and leaves out an
\* object of a cell farther away
C30_Witness ==
    \E p \in QueryPositions : \E r \in QueryRadii :
        LET found == Range(get_nearby_objects(grid, p, r))
        IN  /\ \E id \in found : world_to_cell(p) \notin CellsOf(id)
            /\ Gridded(grid) \ found # {}

----------------------------------------------------------------------------
(* The queue that update_batch leaves *)

\* the queue as the while loop of the call leaves it, before the sort
Requeued ==
    batch_loop([Store EXCEPT !.total_time = total_time'], 0, max_updates).update_queue

\* the entries of a queue whose object was last updated at time t, in order
UpdatedAt(queue, od, t) == SelectSeq(queue, LAMBDA id : od[id].last_update = t)

\* C31: when update_batch returns, the last_update of the queued objects is
\* non-decreasing from the front of the queue to its back, and the objects
\* of equal last_update are in the order the loop of the call left them in.
C31_BatchSorted ==
    [][StoreStep("update_batch") =>
          /\ Range(update_queue') \subseteq DOMAIN object_data'
          /\ \A i \in 1..(Len(update_queue') - 1) :
                object_data'[update_queue'[i]].last_update
                    <= object_data'[update_queue'[i + 1]].last_update
          /\ \A id \in DOMAIN object_data' :
                UpdatedAt(update_queue', object_data', object_data'[id].last_update)
                    = UpdatedAt(Requeued, object_data', object_data'[id].last_update)]_vars

\* an update_batch call has returned with three objects queued, two of
\* them updated at the same time and before the third
C31_Witness ==
    /\ ocall.op = "update_batch"
    /\ Len(update_queue) = 3
    /\ Cardinality(Range(update_queue)) = 3
    /\ object_data[update_queue[1]].last_update = object_data[update_queue[2]].last_update
    /\ object_data[update_queue[2]].last_update < object_data[update_queue[3]].last_update

----------------------------------------------------------------------------
(* The borrows of a replay *)

\* C32: no undo, redo, undo_to_time or redo_to_time borrows mutably a cell
\* that its own call stack has already borrowed mutably: with payloads
\* that all deserialize, none of these calls ends in a panic; a SceneUpdate
\* item replayed through update_scene does not come back to the borrowed
\* History.
C32_NoReentrantBorrow ==
    [][(undo \/ redo \/ undo_to_time \/ redo_to_time) => ~panicked']_vars

----------------------------------------------------------------------------
(* The three structures of the store *)

\* the number of times an id is in a sequence
Occurrences(seq, id) == Cardinality({i \in 1..Len(seq) : seq[i] = id})

\* the number of times an id is listed in the grid, all cells together
RECURSIVE GridOccurrences(_, _, _)
GridOccurrences(cells, todo, id) ==
    IF todo = {} THEN 0
    ELSE LET c == CHOOSE c \in todo : TRUE
         IN  Occurrences(cells[c], id) + GridOccurrences(cells, todo \ {c}, id)

\* C33: after any sequence of add, remove, clear, update_batch,
\* update_visible and update_all, every id of the object map is exactly
\* once in the update queue and exactly once in the grid, and the queue and
\* the grid hold no id that the object map does not hold.
C33_StructuresAgree ==
    /\ \A id \in DOMAIN object_data :
          /\ Occurrences(update_queue, id) = 1
          /\ GridOccurrences(grid, DOMAIN grid, id) = 1
    /\ Range(update_queue) \subseteq DOMAIN object_data
    /\ Gridded(grid) \subseteq DOMAIN object_data

\* C34: one update_batch call updates no object more than once, whatever
\* max_updates and the number of queued objects are, max_updates above the
\* number of queued objects included.
C34_UpdatedOnce ==
    ocall.op = "update_batch" =>
        \A id \in DOMAIN object_data : Occurrences(ocall.updated, id) <= 1

----------------------------------------------------------------------------
(* The order and the contents of the stacks *)

\* C35: with timestamps read from a clock that never goes back, the undo
\* stack is in chronological order after any sequence of push, undo, redo,
\* undo_to_time, redo_to_time and clear: timestamps are non-decreasing from
\* the bottom of the undo stack to its top.
C35_UndoChronological == ~panicked => NonDecreasing(undo_stack)

\* the units a History holds: those of the two stacks and the open unit
HeldUnits == undo_stack \o redo_stack \o current_unit

\* the units of a sequence with the number of times each is in it
UnitBag(units) == [u \in Range(units) |-> Occurrences(units, u)]

\* C36: undo, redo, undo_to_time and redo_to_time keep the multiset of the
\* units that the undo stack, the redo stack and the open unit hold
\* together, and leave no unit without an item on either stack.
C36_UnitsConserved ==
    [][(undo \/ redo \/ undo_to_time \/ redo_to_time) =>
          /\ UnitBag(HeldUnits') = UnitBag(HeldUnits)
          /\ \A i \in 1..Len(undo_stack') : undo_stack'[i].items # <<>>
          /\ \A i \in 1..Len(redo_stack') : redo_stack'[i].items # <<>>]_vars

----------------------------------------------------------------------------
(* can_undo and can_redo *)

\* C37: in every reachable state of a History attached to an App,
\* can_undo() is true exactly when an undo() called next returns true, and
\* can_redo() is true exactly when a redo() called next returns true.
C37_CanMeansWill ==
    [][/\ undo => (call'.ret <=> can_undo(History))
       /\ redo => (call'.ret <=> can_redo(History))]_vars

----------------------------------------------------------------------------
(* The undo payload of a scene mutator *)

\* the scene after update_scene has assigned a payload with no replay
\* running: every setter runs to the end
Restored(item) == update_scene(Live', item.undo_data, FALSE).scene

\* C38: when a mutator of the SceneManager has recorded a history item,
\* update_scene applied to the undo payload of the item gives every field
\* of the scene the value it had before the mutation, the rotation centre
\* that set_center changes included.
C38_UndoPayloadRestores ==
    [][(PushStep /\ ~call'.guarded /\ call'.item.kind = "SceneUpdate") =>
          Restored(call'.item) = scene]_vars

----------------------------------------------------------------------------
(* The nearby query and the recorded positions *)

\* the objects whose recorded position is at most r away from p on each axis
Within(p, r) ==
    {id \in DOMAIN object_data :
        /\ Distance(object_data[id].position[1], p[1]) <= r
        /\ Distance(object_data[id].position[2], p[2]) <= r}

\* C39: the nearby query at p with radius r >= 0 returns the id of every
\* object whose position recorded in the store is at most r away from p on
\* each axis.
C39_NoFalseNegative ==
    \A p \in QueryPositions : \A r \in QueryRadii :
        Within(p, r) \subseteq Range(get_nearby_objects(grid, p, r))

\* an update has just recorded the position of an object; a query finds
\* the object, which is within the radius and in a cell that is not the
\* cell of the query, and leaves out another object, which is farther away
C39_Witness ==
    /\ ocall.op \in {"update_batch", "update_visible", "update_all"}
    /\ \E p \in QueryPositions : \E r \in QueryRadii : \E id \in Within(p, r) :
          /\ id \in Range(ocall.updated)
          /\ world_to_cell(object_data[id].position) # world_to_cell(p)
          /\ id \in Range(get_nearby_objects(grid, p, r))
          /\ DOMAIN object_data \ Range(get_nearby_objects(grid, p, r)) # {}

----------------------------------------------------------------------------
(* The animations an update leaves active *)

\* the numbers of the animations of a sequence of entries
Numbers(entries) == {entries[i].n : i \in 1..Len(entries)}

\* the active animations whose target is among the objects handed to the
\* call and that report InProgress in the call
StillRunning(present) ==
    {animations[i].n : i \in {i \in 1..Len(animations) :
        /\ animations[i].object_id \in present
        /\ ~Completed(Animation_update(animations[i]))}}

\* C40: after an update call on an initialized AnimationManager the active
\* animations are the animations that were active, reported InProgress and
\* have their target among the objects, together with the animations that
\* were queued; each of them is active once, and the queue is empty.
C40_UpdateKeepsActive ==
    [][(n_anim_ops' = n_anim_ops + 1 /\ acall'.op = "update" /\ init) =>
          /\ Numbers(animations') =
                StillRunning(acall'.present) \cup Numbers(queued_animations)
          /\ Cardinality(Numbers(animations')) = Len(animations')
          /\ queued_animations' = <<>>]_vars

====
